---- MODULE Spec2Model ----
(***************************************************************************)
(* The ingestion / dedup / analytics loop of the sales bot.  src/index.js  *)
(* holds three variants of the program, one after the other: variant 1     *)
(* (lines 1-358: guards, analytics engine), variant 2 (lines 360-659:      *)
(* guards plus the per-transaction marker) and variant 3 (lines 661-772:   *)
(* lookup-then-insert, no guard, no try/catch).  A run of the model is a   *)
(* run of one of them, chosen in Init.                                     *)
(*                                                                         *)
(* Every action is one turn of the event loop: the code from one await (or *)
(* timer callback) to the next.  A database statement is executed          *)
(* atomically by the storage layer when the awaiting turn resumes.         *)
(***************************************************************************)
EXTENDS Integers, Sequences, FiniteSets, TLC

VARIABLES
    variant,            \* which of the three programs of src/index.js runs
    OWNER_DISCORD_ID,   \* environment: TRUE when a recipient is configured
    ALERT_SINGLE_SALE,  \* environment: the alert threshold (variant 3 has none: 0)
    unhandled,          \* node's --unhandled-rejections mode: "throw" | "warn"
    crashed,            \* the process has exited on an unhandled rejection
    tick,               \* number of CHECK_INTERVAL timer callbacks so far
    cycles,             \* every pollGroup call that passed the guard, in call order
    skipped,            \* pollGroup calls that returned at the guard: <<group, tick>>
    pollingGroups,      \* the Set of line 39 / 396
    processingSales,    \* the Set of line 397 (variant 2)
    saleTimers,         \* pending setTimeout callbacks of line 560, by idHash
    notified,           \* messages delivered to the owner, counted by idHash
    sales,              \* table sales
    analytics_daily,    \* table analytics_daily
    anomalies,          \* table anomalies (no key: a sequence of rows)
    analyticsRunning,   \* the flag of line 40
    analytics,          \* every runAnalytics call that passed the guard, in call order
    runs,               \* number of ANALYTICS_INTERVAL timer callbacks so far
    reply               \* the last answer of the query surface to its caller

vars == <<variant, OWNER_DISCORD_ID, ALERT_SINGLE_SALE, unhandled, crashed, tick,
          cycles, skipped, pollingGroups, processingSales, saleTimers, notified,
          sales, analytics_daily, anomalies, analyticsRunning, analytics, runs,
          reply>>

config == <<variant, OWNER_DISCORD_ID, ALERT_SINGLE_SALE, unhandled>>
pollerVars == <<tick, cycles, skipped, pollingGroups, processingSales, saleTimers,
                notified>>
analyticsVars == <<analytics_daily, anomalies, analyticsRunning, analytics, runs>>

(***************************************************************************)
(* Bounds of the model.                                                    *)
(***************************************************************************)
MaxTicks == 2
MaxFeed == 2
MaxRuns == 2
MaxInFlight == 3

(***************************************************************************)
(* Configuration and inputs.                                               *)
(***************************************************************************)
GROUPS == <<1, 2>>

Thresholds == {1, 2}

\* The transactions the feed may deliver: two sales of an asset, one of them
\* below the threshold, and two entries that are not (another details.type,
\* and no details.type at all: "none"), each with the idHash of a sale.
Transactions ==
    { [idHash |-> 1, type |-> "Asset",    amount |-> 3, created |-> 7],
      [idHash |-> 2, type |-> "Asset",    amount |-> 1, created |-> 6],
      [idHash |-> 2, type |-> "Currency", amount |-> 3, created |-> 7],
      [idHash |-> 1, type |-> "none",     amount |-> 1, created |-> 7] }

Hashes == {t.idHash : t \in Transactions}

\* sortOrder=Desc: the feed delivers its transactions newest first.
NewestFirst(data) ==
    \A k \in 1..(Len(data) - 1) : data[k].created >= data[k + 1].created

\* A feed response body's data: at most MaxFeed transactions, newest first.
Responses ==
    { data \in UNION { [1..n -> Transactions] : n \in 0..MaxFeed } : NewestFirst(data) }

(***************************************************************************)
(* The record store: table sales, id_hash TEXT PRIMARY KEY.                *)
(* The columns item, buyer and buyer_id are written once like robux and    *)
(* created and are left out.                                               *)
(***************************************************************************)
SaleRow(sale, groupId) ==
    [id_hash |-> sale.idHash, group_id |-> groupId,
     robux |-> sale.amount, created |-> sale.created]

\* Mutant of Conflicts: the table has no key.
ConflictsNever(table, row) == FALSE

\* The uniqueness constraint of the primary key: the insert of row is rejected
\* (error 23505) when a row with its id_hash is stored.
Conflicts(table, row) == \E r \in table : r.id_hash = row.id_hash

\* Mutant of DbInsert: the statement overwrites the stored row
\* (ON CONFLICT (id_hash) DO UPDATE).
DbInsertOverwrite(table, row) == {r \in table : r.id_hash # row.id_hash} \cup {row}

\* INSERT INTO sales VALUES (...): the table after the statement.
DbInsert(table, row) == IF Conflicts(table, row) THEN table ELSE table \cup {row}

\* SELECT 1 FROM sales WHERE id_hash=$1: rowCount > 0.
Exists(table, idHash) == \E r \in table : r.id_hash = idHash

(***************************************************************************)
(* pollGroup.                                                              *)
(***************************************************************************)
\* Mutant of Reverse: the response is processed in the order of the feed.
ReverseNot(s) == s

\* j.data.reverse()
RECURSIVE Reverse(_)
Reverse(s) == IF s = <<>> THEN <<>> ELSE Append(Reverse(Tail(s)), Head(s))

\* Mutant of IsAsset: only the other known type is passed over, an entry without
\* details.type is processed.
IsAssetLoose(sale) == sale.type # "Currency"

\* sale.details?.type !== "Asset" -> continue
IsAsset(sale) == sale.type = "Asset"

\* The head of the loop body up to its first await: the entries the loop passes
\* with continue are dropped, and what is left starts with the entry whose
\* database statement is issued next.  marked is processingSales (variant 2).
\* The test of the type reads the entry alone, so the entries it will pass are
\* dropped from all of todo at once; the test of the marker reads the Set as it
\* is when the loop reaches the entry.
RECURSIVE LoopNext(_, _)
LoopNext(todo, marked) ==
    IF todo = <<>> THEN <<>>
    ELSE IF ~IsAsset(Head(todo)) THEN LoopNext(Tail(todo), marked)
    ELSE IF variant = 2 /\ Head(todo).idHash \in marked THEN LoopNext(Tail(todo), marked)
    ELSE <<Head(todo)>> \o SelectSeq(Tail(todo), IsAsset)

\* The first statement awaited in the loop body.
FirstAwait == IF variant = 3 THEN "select" ELSE "insert"

\* if (OWNER_DISCORD_ID && sale.currency.amount >= ALERT_SINGLE_SALE); variant 3
\* notifies unconditionally.
NotifyDue(sale) ==
    IF variant = 3 THEN TRUE
    ELSE OWNER_DISCORD_ID /\ sale.amount >= ALERT_SINGLE_SALE

\* The in-memory state a turn of pollGroup works on.
PollState ==
    [cycles |-> cycles, pollingGroups |-> pollingGroups,
     processingSales |-> processingSales, saleTimers |-> saleTimers,
     notified |-> notified, crashed |-> crashed]

Apply(st) ==
    /\ cycles' = st.cycles
    /\ pollingGroups' = st.pollingGroups
    /\ processingSales' = st.processingSales
    /\ saleTimers' = st.saleTimers
    /\ notified' = st.notified
    /\ crashed' = st.crashed

\* Mutant of Finally: the marker is not cleared.
FinallyNot(st, g) == st

\* finally { pollingGroups.delete(groupId) } (variants 1 and 2).
Finally(st, g) ==
    IF variant = 3 THEN st ELSE [st EXCEPT !.pollingGroups = @ \ {g}]

\* An exception leaves the loop.  Variants 1 and 2 catch and log it; in variant 3
\* the promise of pollGroup rejects with nobody awaiting it.
Throw(st, i) ==
    LET c  == st.cycles[i]
        s1 == [st EXCEPT !.cycles[i] =
                  [c EXCEPT !.pc = "failed", !.todo = <<>>, !.result = "none",
                            !.passed = FALSE]]
        s2 == Finally(s1, c.g)
    IN  IF variant = 3 /\ unhandled = "throw" THEN [s2 EXCEPT !.crashed = TRUE] ELSE s2

\* The loop goes on with the entries rest.
LoopFrom(st, i, rest) ==
    LET c   == st.cycles[i]
        nxt == LoopNext(rest, st.processingSales)
        byType == c.passed \/ \E k \in 1..Len(rest) : ~IsAsset(rest[k])
    IN  IF nxt = <<>>
        THEN Finally([st EXCEPT !.cycles[i] =
                         [c EXCEPT !.pc = "done", !.todo = <<>>, !.result = "none",
                                   !.passed = FALSE]], c.g)
        ELSE [st EXCEPT !.cycles[i] =
                         [c EXCEPT !.pc = FirstAwait, !.todo = nxt, !.result = "none",
                                   !.passed = byType],
                        !.processingSales =
                         IF variant = 2 THEN @ \cup {Head(nxt).idHash} ELSE @]

\* The end of the loop body for the current entry: variant 2 arms the timer that
\* removes its marker (line 560), then the loop goes on.
EndIteration(st, i) ==
    LET cur == Head(st.cycles[i].todo)
        s1  == IF variant = 2
               THEN [st EXCEPT !.saleTimers = @ \cup {cur.idHash}] ELSE st
    IN  LoopFrom(s1, i, Tail(st.cycles[i].todo))

\* A cycle: its partition, the tick that called it, where it waits (pc), the
\* entries of the response not yet done (todo, the current one first), how the
\* INSERT of the current entry ended (result: "none" before it, "ok", "23505"
\* for the duplicate key, "error"), and whether the running loop has passed an
\* entry for its type (passed).
NewCycle(g) ==
    [g |-> g, tick |-> tick + 1, pc |-> "fetch", todo |-> <<>>, result |-> "none",
     passed |-> FALSE]

\* Mutant of pollGroup: one marker for all partitions.
pollGroupGlobalGuard(st, g) ==
    IF variant # 3 /\ st.pollingGroups # {}
    THEN [st EXCEPT !.skipped = @ \cup {<<g, tick + 1>>}]
    ELSE [st EXCEPT !.cycles = Append(@, NewCycle(g)),
                    !.pollingGroups = IF variant = 3 THEN @ ELSE @ \cup {g}]

\* One call pollGroup(g) up to its first await: the guard, the marker, the request.
pollGroup(st, g) ==
    IF variant # 3 /\ g \in st.pollingGroups
    THEN [st EXCEPT !.skipped = @ \cup {<<g, tick + 1>>}]
    ELSE [st EXCEPT !.cycles = Append(@, NewCycle(g)),
                    !.pollingGroups = IF variant = 3 THEN @ ELSE @ \cup {g}]

\* GROUPS.forEach(pollGroup)
RECURSIVE ForEach(_, _)
ForEach(st, groups) ==
    IF groups = <<>> THEN st ELSE ForEach(pollGroup(st, Head(groups)), Tail(groups))

InFlight(cs) == {i \in DOMAIN cs : cs[i].pc \notin {"done", "failed"}}

\* setInterval(() => GROUPS.forEach(pollGroup), CHECK_INTERVAL)
\* The timer fires at most MaxTicks times, and only when the calls it makes
\* leave at most MaxInFlight cycles unfinished.
Tick ==
    /\ ~crashed
    /\ tick < MaxTicks
    /\ LET st == ForEach([cycles |-> cycles, pollingGroups |-> pollingGroups,
                          skipped |-> skipped], GROUPS)
       IN  /\ Cardinality(InFlight(st.cycles)) <= MaxInFlight
           /\ cycles' = st.cycles
           /\ pollingGroups' = st.pollingGroups
           /\ skipped' = st.skipped
    /\ tick' = tick + 1
    /\ UNCHANGED <<config, crashed, processingSales, saleTimers, notified, sales,
                   analyticsVars, reply>>

At(i, pc) == ~crashed /\ i \in DOMAIN cycles /\ cycles[i].pc = pc

PollFrame == UNCHANGED <<config, tick, skipped, analyticsVars, reply>>

\* fetch or r.json() rejects: a network or a feed-parsing error.
FetchError(i) ==
    /\ At(i, "fetch")
    /\ Apply(Throw(PollState, i))
    /\ UNCHANGED sales /\ PollFrame

\* The request never completes (no timeout is set on it).
FetchHang(i) ==
    /\ At(i, "fetch")
    /\ cycles' = [cycles EXCEPT ![i].pc = "hung"]
    /\ UNCHANGED <<pollingGroups, processingSales, saleTimers, notified, crashed, sales>>
    /\ PollFrame

\* if (!j.data) return
FetchNoData(i) ==
    /\ At(i, "fetch")
    /\ Apply(Finally([PollState EXCEPT !.cycles[i].pc = "done"], cycles[i].g))
    /\ UNCHANGED sales /\ PollFrame

\* for (const sale of j.data.reverse())
FetchData(i) ==
    /\ At(i, "fetch")
    /\ \E data \in Responses : Apply(LoopFrom(PollState, i, Reverse(data)))
    /\ UNCHANGED sales /\ PollFrame

\* Variant 3: SELECT 1 FROM sales WHERE id_hash=$1; if (exists.rowCount) continue
Select(i) ==
    /\ At(i, "select")
    /\ LET cur == Head(cycles[i].todo)
       IN  IF Exists(sales, cur.idHash)
           THEN Apply(LoopFrom(PollState, i, Tail(cycles[i].todo)))
           ELSE Apply([PollState EXCEPT !.cycles[i].pc = "insert"])
    /\ UNCHANGED sales /\ PollFrame

\* What follows the INSERT that ended with result.
\* Variant 1: catch { continue }.  Variant 2: the catch only logs, and the code
\* after it runs whether or not the row was stored.  Variant 3: no catch.
AfterInsert(st, i, result) ==
    LET cur == Head(st.cycles[i].todo)
        ok  == result = "ok"
        s1  == [st EXCEPT !.cycles[i].result = result]
        toNotify == [s1 EXCEPT !.cycles[i].pc = "notify"]
    IN  CASE variant = 1 ->
               IF ~ok THEN EndIteration(s1, i)
               ELSE IF NotifyDue(cur) THEN toNotify
               ELSE EndIteration(s1, i)
          [] variant = 2 ->
               IF NotifyDue(cur) THEN toNotify ELSE EndIteration(s1, i)
          [] OTHER ->
               IF ok THEN toNotify ELSE Throw(s1, i)

\* INSERT INTO sales VALUES (...), executed by the storage layer.
Insert(i) ==
    /\ At(i, "insert")
    /\ LET row == SaleRow(Head(cycles[i].todo), cycles[i].g)
       IN  /\ sales' = DbInsert(sales, row)
           /\ Apply(AfterInsert(PollState, i,
                                 IF Conflicts(sales, row) THEN "23505" ELSE "ok"))
    /\ PollFrame

\* A pending statement of the cycle fails for another reason than the key.
StorageError(i) ==
    /\ At(i, "insert") \/ At(i, "select")
    /\ IF cycles[i].pc = "select" THEN Apply(Throw(PollState, i))
       ELSE Apply(AfterInsert(PollState, i, "error"))
    /\ UNCHANGED sales /\ PollFrame

\* client.users.fetch(OWNER_DISCORD_ID) and user.send(...) succeed (variant 3:
\* getAvatar before them): the message is delivered.
Notify(i) ==
    /\ At(i, "notify")
    /\ OWNER_DISCORD_ID
    /\ LET h == Head(cycles[i].todo).idHash
       IN  Apply(EndIteration([PollState EXCEPT !.notified[h] = @ + 1], i))
    /\ UNCHANGED sales /\ PollFrame

\* One of them rejects.
NotifyError(i) ==
    /\ At(i, "notify")
    /\ Apply(Throw(PollState, i))
    /\ UNCHANGED sales /\ PollFrame

\* setTimeout(() => processingSales.delete(sale.idHash), 60_000) fires.
TimerFire(h) ==
    /\ ~crashed
    /\ h \in saleTimers
    /\ saleTimers' = saleTimers \ {h}
    /\ processingSales' = processingSales \ {h}
    /\ UNCHANGED <<cycles, pollingGroups, notified, crashed, sales>>
    /\ PollFrame

(***************************************************************************)
(* runAnalytics (variant 1).                                               *)
(*                                                                         *)
(* SUM(robux) is a bigint, which the database driver hands over as a       *)
(* decimal string, and in JavaScript number + string and string + string   *)
(* concatenate.  A decimal string is held here by the number it reads as.  *)
(* A float is held exactly, as a fraction [num, den]; the volatility, a    *)
(* square root, by the fraction under the root.                            *)
(***************************************************************************)
RECURSIVE Digits(_)
Digits(n) == IF n < 10 THEN 1 ELSE 1 + Digits(n \div 10)

RECURSIVE Pow10(_)
Pow10(k) == IF k = 0 THEN 1 ELSE 10 * Pow10(k - 1)

\* a + b where b is a string: the string a followed by b, read as a number.
Concat(a, b) == a * Pow10(Digits(b)) + b

\* values.reduce((a,b)=>a+b,0)
RECURSIVE ReduceAdd(_, _)
ReduceAdd(values, acc) ==
    IF values = <<>> THEN acc ELSE ReduceAdd(Tail(values), Concat(acc, Head(values)))

\* values.slice(-n)
SliceLast(values, n) ==
    IF Len(values) <= n THEN values ELSE SubSeq(values, Len(values) - n + 1, Len(values))

RECURSIVE SumSq(_, _)
\* sum of (7b - c7)^2 over values: 49 times the sum of Math.pow(b-avg7,2)
SumSq(values, c7) ==
    IF values = <<>> THEN 0
    ELSE (7 * Head(values) - c7) * (7 * Head(values) - c7) + SumSq(Tail(values), c7)

Min(a, b) == IF a < b THEN a ELSE b

RECURSIVE SumRobux(_)
SumRobux(rows) ==
    IF rows = {} THEN 0
    ELSE LET r == CHOOSE x \in rows : TRUE IN r.robux + SumRobux(rows \ {r})

RECURSIVE Ascending(_)
Ascending(days) ==
    IF days = {} THEN <<>>
    ELSE LET d == CHOOSE x \in days : \A y \in days : x <= y
         IN  <<d>> \o Ascending(days \ {d})

\* SELECT DATE(created) d, SUM(robux) r FROM sales GROUP BY d ORDER BY d
DailyTotals(table) ==
    LET days == Ascending({r.created : r \in table})
    IN  [k \in 1..Len(days) |->
            [d |-> days[k], r |-> SumRobux({x \in table : x.created = days[k]})]]

\* Lines 247-257: the row runAnalytics writes for the rows of the query.
Snapshot(rows) ==
    LET values == [k \in 1..Len(rows) |-> rows[k].r]
        total  == values[Len(values)]
        c7     == ReduceAdd(SliceLast(values, 7), 0)
        c14    == ReduceAdd(SliceLast(values, 14), 0)
    IN  [date       |-> rows[Len(rows)].d,
         total      |-> total,
         avg7       |-> [num |-> c7, den |-> 7],
         avg14      |-> [num |-> c14, den |-> Min(14, Len(values))],
         trend      |-> [num |-> 7 * total - c7, den |-> IF c7 > 7 THEN c7 ELSE 7],
         volatility |-> [root |-> [num |-> SumSq(SliceLast(values, 7), c7), den |-> 343]]]

\* Mutant of IsSpike: the rule is total > avg7.
IsSpikeAboveAverage(row) == 7 * row.total > row.avg7.num

\* total > avg7 + 2 * volatility
IsSpike(row) ==
    LET d == 7 * row.total - row.avg7.num
    IN  d > 0 /\ 7 * d * d > 4 * row.volatility.root.num

\* Mutant of Upsert: on conflict the total is added to the stored one
\* (SET total = analytics_daily.total + $2).
UpsertAccumulate(table, row) ==
    IF \E x \in table : x.date = row.date
    THEN LET old == CHOOSE x \in table : x.date = row.date
         IN  (table \ {old}) \cup {[row EXCEPT !.total = old.total + row.total]}
    ELSE table \cup {row}

\* INSERT INTO analytics_daily ... ON CONFLICT (date) DO UPDATE SET ...
Upsert(table, row) == {x \in table : x.date # row.date} \cup {row}

\* Mutant of TooFew: the comparison is off by one.
TooFewOffByOne(rows) == Len(rows) < 6

\* if (values.length < 7) return
TooFew(rows) == Len(rows) < 7

\* One call runAnalytics() up to its first await: the guard, the flag, the query.
\* An execution: where it waits (pc), the rows its query returned (r.rows), and
\* whether its upsert has been executed (wrote).
NewRun == [pc |-> "query", rows |-> <<>>, wrote |-> FALSE]

\* Mutant of Guarded: no guard.
GuardedNever == FALSE

\* if (analyticsRunning) return
Guarded == analyticsRunning

\* setInterval(runAnalytics, ANALYTICS_INTERVAL)
AnalyticsTick ==
    /\ ~crashed
    /\ variant = 1
    /\ runs < MaxRuns
    /\ runs' = runs + 1
    /\ IF Guarded
       THEN UNCHANGED <<analytics, analyticsRunning>>
       ELSE /\ analytics' = Append(analytics, NewRun)
            /\ analyticsRunning' = TRUE
    /\ UNCHANGED <<config, crashed, pollerVars, sales, analytics_daily, anomalies,
                   reply>>

Running(j, pc) == ~crashed /\ j \in DOMAIN analytics /\ analytics[j].pc = pc

AnalyticsFrame == UNCHANGED <<config, crashed, pollerVars, sales, runs, reply>>

\* The SELECT returns; if (values.length < 7) return; else the INSERT is issued.
AnalyticsQuery(j) ==
    /\ Running(j, "query")
    /\ LET rows == DailyTotals(sales)
       IN  IF TooFew(rows)
           THEN /\ analytics' = [analytics EXCEPT ![j].pc = "done"]
                /\ analyticsRunning' = FALSE
           ELSE /\ analytics' = [analytics EXCEPT ![j].pc = "upsert", ![j].rows = rows]
                /\ UNCHANGED analyticsRunning
    /\ UNCHANGED <<analytics_daily, anomalies>>
    /\ AnalyticsFrame

\* The upsert is executed; the anomaly INSERT is issued for a spike.
AnalyticsUpsert(j) ==
    /\ Running(j, "upsert")
    /\ analytics_daily' = Upsert(analytics_daily, Snapshot(analytics[j].rows))
    /\ IF IsSpike(Snapshot(analytics[j].rows))
       THEN /\ analytics' = [analytics EXCEPT ![j].pc = "anomaly", ![j].wrote = TRUE]
            /\ UNCHANGED analyticsRunning
       ELSE /\ analytics' = [analytics EXCEPT ![j].pc = "done", ![j].wrote = TRUE]
            /\ analyticsRunning' = FALSE
    /\ UNCHANGED anomalies
    /\ AnalyticsFrame

\* INSERT INTO anomalies VALUES ($1,$2,$3)
AnalyticsAnomaly(j) ==
    /\ Running(j, "anomaly")
    /\ anomalies' = Append(anomalies, [date |-> Snapshot(analytics[j].rows).date,
                                       reason |-> "Spike detected",
                                       value |-> Snapshot(analytics[j].rows).total])
    /\ analytics' = [analytics EXCEPT ![j].pc = "done"]
    /\ analyticsRunning' = FALSE
    /\ UNCHANGED analytics_daily
    /\ AnalyticsFrame

\* A pending statement of the run rejects: catch, log, finally.
AnalyticsError(j) ==
    /\ \/ Running(j, "query")
       \/ Running(j, "upsert")
       \/ Running(j, "anomaly")
    /\ analytics' = [analytics EXCEPT ![j].pc = "failed",
                                      ![j].rows = IF analytics[j].wrote THEN @ ELSE <<>>]
    /\ analyticsRunning' = FALSE
    /\ UNCHANGED <<analytics_daily, anomalies>>
    /\ AnalyticsFrame

(***************************************************************************)
(* The query surface (variants 1 and 2): the slash commands sales_today,   *)
(* sales_week, sales_month and sales_predict, and GET /api/stats.  A       *)
(* handler issues SELECT statements only and answers to its caller.  Time  *)
(* is counted in days, like created.  A value a statement returns is       *)
(* [null, v]: SQL NULL, or the number v.                                   *)
(***************************************************************************)
Commands == {"sales_today", "sales_week", "sales_month", "sales_predict"}

\* NOW() when a request arrives.
Clock == {9, 10}

NoReply == [cmd |-> "none", kind |-> "none", results |-> <<>>]

\* SUM(robux) over the selected rows: NULL when there is none.
SqlSum(rows) ==
    IF rows = {} THEN [null |-> TRUE, v |-> 0] ELSE [null |-> FALSE, v |-> SumRobux(rows)]

\* Mutant of Coalesce: the aggregate is returned as it is.
CoalesceNot(x, d) == x

\* COALESCE(x, d)
Coalesce(x, d) == IF x.null THEN [null |-> FALSE, v |-> d] ELSE x

\* SELECT COALESCE(SUM(robux),0) FROM sales WHERE created >= since
sumSince(table, since) ==
    [since |-> since,
     value |-> Coalesce(SqlSum({r \in table : r.created >= since}), 0)]

\* INTERVAL '1 day' | '7 days' ('1 week') | '30 days' ('1 month')
IntervalDays(cmd) ==
    CASE cmd = "sales_week"  -> 7
      [] cmd = "sales_month" -> 30
      [] OTHER               -> 1

\* ORDER BY date DESC LIMIT 1
Latest(table) == CHOOSE x \in table : \A y \in table : y.date <= x.date

\* Math.round(n / d) for d > 0: the nearest integer, a half rounded up.
Round(n, d) == (2 * n + d) \div (2 * d)

Max(a, b) == IF a > b THEN a ELSE b

\* Variant 1: Math.max(Math.round(d.avg7 * (1 + d.trend)), 0)
Prediction(d) ==
    Max(Round(d.avg7.num * (d.trend.den + d.trend.num), d.avg7.den * d.trend.den), 0)

\* Variant 2: Math.round(avg7 * 1.15), avg7 from the daily totals of the last
\* 14 days: values.slice(-7).reduce((a,b)=>a+b,0)/7 || 0
PredictionFromSales(table, now) ==
    LET rows   == DailyTotals({r \in table : r.created >= now - 14})
        values == [k \in 1..Len(rows) |-> rows[k].r]
        c7     == ReduceAdd(SliceLast(values, 7), 0)
    IN  Round(23 * c7, 140)

Forecast(n) ==
    [cmd |-> "sales_predict", kind |-> "forecast",
     results |-> <<[since |-> 0, value |-> [null |-> FALSE, v |-> n]]>>]

\* client.on("interactionCreate"): one slash command, from the query it issues
\* to its reply.
Interaction(cmd, now) ==
    /\ ~crashed
    /\ variant # 3
    /\ reply' =
          IF cmd # "sales_predict"
          THEN [cmd |-> cmd, kind |-> "total",
                results |-> <<sumSince(sales, now - IntervalDays(cmd))>>]
          ELSE IF variant = 2 THEN Forecast(PredictionFromSales(sales, now))
          ELSE IF analytics_daily = {}
          THEN [cmd |-> cmd, kind |-> "nodata", results |-> <<>>]
          ELSE Forecast(Prediction(Latest(analytics_daily)))
    /\ UNCHANGED <<config, crashed, pollerVars, sales, analyticsVars>>

\* GET /api/stats (variant 2): today since CURRENT_DATE, week since NOW() - 7 days.
ApiStats(now) ==
    /\ ~crashed
    /\ variant = 2
    /\ reply' = [cmd |-> "stats", kind |-> "total",
                 results |-> <<sumSince(sales, now), sumSince(sales, now - 7)>>]
    /\ UNCHANGED <<config, crashed, pollerVars, sales, analyticsVars>>

(***************************************************************************)
(* The database outlives the process (CREATE TABLE IF NOT EXISTS): the     *)
(* program starts on the records of six earlier days, one sale of amount 0 *)
(* each.                                                                   *)
(***************************************************************************)
History ==
    { [id_hash |-> 100 + d, group_id |-> 1, robux |-> 0, created |-> d] : d \in 1..6 }

Init ==
    /\ variant \in 1..3
    /\ OWNER_DISCORD_ID \in BOOLEAN
    /\ ALERT_SINGLE_SALE \in IF variant = 3 THEN {0} ELSE Thresholds
    /\ unhandled \in IF variant = 3 THEN {"throw", "warn"} ELSE {"throw"}
    /\ crashed = FALSE
    /\ tick = 0
    /\ cycles = <<>>
    /\ skipped = {}
    /\ pollingGroups = {}
    /\ processingSales = {}
    /\ saleTimers = {}
    /\ notified = [h \in Hashes |-> 0]
    /\ sales = History
    /\ analytics_daily = {}
    /\ anomalies = <<>>
    /\ analyticsRunning = FALSE
    /\ analytics = <<>>
    /\ runs = 0
    /\ reply = NoReply

Next ==
    \/ Tick
    \/ \E i \in 1..(MaxTicks * Len(GROUPS)) :
          \/ FetchError(i)
          \/ FetchHang(i)
          \/ FetchNoData(i)
          \/ FetchData(i)
          \/ Select(i)
          \/ Insert(i)
          \/ StorageError(i)
          \/ Notify(i)
          \/ NotifyError(i)
    \/ \E h \in Hashes : TimerFire(h)
    \/ AnalyticsTick
    \/ \E j \in 1..MaxRuns :
          \/ AnalyticsQuery(j)
          \/ AnalyticsUpsert(j)
          \/ AnalyticsAnomaly(j)
          \/ AnalyticsError(j)

Spec == Init /\ [][Next]_vars

(***************************************************************************)
(* The query surface on its own: the tables hold what earlier runs of the  *)
(* poller and of the analytics engine left in them, and requests arrive.   *)
(***************************************************************************)
Ledger ==
    { [id_hash |-> 201, group_id |-> 1, robux |-> 5, created |-> 9],
      [id_hash |-> 202, group_id |-> 2, robux |-> 3, created |-> 8],
      [id_hash |-> 203, group_id |-> 1, robux |-> 2, created |-> 2],
      [id_hash |-> 204, group_id |-> 2, robux |-> 0, created |-> 10] }

\* The rows of the analytics query for 7 consecutive days ending on day last.
DayRows(values, last) == [k \in 1..7 |-> [d |-> last - 7 + k, r |-> values[k]]]

\* Snapshots in analytics_daily: two that runAnalytics writes (a rising and a
\* falling last day), and the one with avg7 = 40 and trend = 0.75.
Snapshots ==
    { Snapshot(DayRows(<<0, 0, 0, 0, 0, 1, 3>>, 7)),
      Snapshot(DayRows(<<0, 0, 0, 0, 0, 3, 0>>, 9)),
      [date       |-> 8,
       total      |-> 70,
       avg7       |-> [num |-> 280, den |-> 7],
       avg14      |-> [num |-> 280, den |-> 7],
       trend      |-> [num |-> 210, den |-> 280],
       volatility |-> [root |-> [num |-> 137200, den |-> 343]]] }

InitQuery ==
    /\ variant \in 1..2
    /\ OWNER_DISCORD_ID \in BOOLEAN
    /\ ALERT_SINGLE_SALE \in Thresholds
    /\ unhandled = "throw"
    /\ crashed = FALSE
    /\ tick = 0
    /\ cycles = <<>>
    /\ skipped = {}
    /\ pollingGroups = {}
    /\ processingSales = {}
    /\ saleTimers = {}
    /\ notified = [h \in Hashes |-> 0]
    /\ sales \in SUBSET Ledger
    /\ analytics_daily \in IF variant = 1 THEN SUBSET Snapshots ELSE {{}}
    /\ anomalies = <<>>
    /\ analyticsRunning = FALSE
    /\ analytics = <<>>
    /\ runs = 0
    /\ reply = NoReply

NextQuery ==
    \/ \E cmd \in Commands, now \in Clock : Interaction(cmd, now)
    \/ \E now \in Clock : ApiStats(now)

SpecQuery == InitQuery /\ [][NextQuery]_vars

(***************************************************************************)
(* Properties.                                                             *)
(***************************************************************************)

\* C1: after any interleaving of poll cycles the sales table holds at most one
\* row per idHash; the INSERT of a stored idHash adds no row.
C1_OneRowPerIdHash == \A r1, r2 \in sales : r1.id_hash = r2.id_hash => r1 = r2

\* An INSERT of a stored idHash has been rejected, and the table holds the one
\* row of that idHash.
C1_DuplicateRejected ==
    \E i \in DOMAIN cycles :
        /\ cycles[i].result = "23505"
        /\ Cardinality({r \in sales : r.id_hash = Head(cycles[i].todo).idHash}) = 1

\* C2: a notification is emitted only by a cycle whose INSERT of that
\* transaction stored the row, and only for an amount that meets the threshold.
C2_NotifiedOnlyWhenStored ==
    [][\A h \in Hashes :
          notified'[h] # notified[h] =>
              \E i \in DOMAIN cycles :
                  /\ cycles[i].pc = "notify"
                  /\ cycles'[i] # cycles[i]
                  /\ Head(cycles[i].todo).idHash = h
                  /\ cycles[i].result = "ok"
                  /\ Head(cycles[i].todo).amount >= ALERT_SINGLE_SALE]_vars

\* C3: at most one cycle per partition is in flight, and a call that returned at
\* the guard never becomes a cycle.
C3_OneCyclePerPartition ==
    /\ \A i, j \in InFlight(cycles) : cycles[i].g = cycles[j].g => i = j
    /\ \A sk \in skipped :
          ~\E i \in DOMAIN cycles : cycles[i].g = sk[1] /\ cycles[i].tick = sk[2]

\* C4 as stated: every tick after the one whose request hung has started a cycle
\* for the partition of the hung request too.
C4_HungPartitionPolledAgain ==
    \A i \in DOMAIN cycles :
        cycles[i].pc = "hung" =>
            \A t \in (cycles[i].tick + 1)..tick :
                \E j \in DOMAIN cycles : cycles[j].g = cycles[i].g /\ cycles[j].tick = t

StartedBy(g) ==
    \E i \in DOMAIN cycles' :
        /\ i \notin DOMAIN cycles
        /\ cycles'[i].g = g
        /\ cycles'[i].tick = tick'
        /\ cycles'[i].pc = "fetch"

\* C4, amended: a request that never completes stalls the cycles of its own
\* partition only.  A tick starts a cycle for every partition that has no
\* unfinished cycle of its own, whatever hangs elsewhere; with the guard
\* (variants 1 and 2) it starts none for a partition whose request hangs.
C4_HangStallsOwnPartitionOnly ==
    [][tick' # tick =>
          \A k \in 1..Len(GROUPS) :
              LET g    == GROUPS[k]
                  busy == \E i \in InFlight(cycles) : cycles[i].g = g
              IN  /\ (variant = 3 \/ ~busy) => StartedBy(g)
                  /\ (variant # 3 /\ busy) => ~StartedBy(g)]_vars

\* A request of one partition hangs, and a cycle that a later tick started for
\* another partition has run to its end.
C4_OtherPartitionCompleted ==
    \E i, j \in DOMAIN cycles :
        /\ cycles[i].pc = "hung"
        /\ cycles[j].g # cycles[i].g
        /\ cycles[j].tick > cycles[i].tick
        /\ cycles[j].pc = "done"

\* C5: an error aborts the cycle it occurs in and nothing else: the records
\* stay stored, the other cycles go on, the process lives, and the marker of
\* the partition is cleared for the next tick.
C5_ErrorAbortsOwnCycleOnly ==
    [][\A i \in DOMAIN cycles :
          (cycles[i].pc # "failed" /\ cycles'[i].pc = "failed") =>
              /\ \A r \in sales : r \in sales'
              /\ \A j \in DOMAIN cycles : j # i => cycles'[j] = cycles[j]
              /\ ~crashed'
              /\ cycles[i].g \notin pollingGroups']_vars

\* C6: an entry whose details.type is not "Asset", or is missing, is never the
\* entry a cycle inserts or notifies, and no row of it is stored.
C6_OnlyAssetsProcessed ==
    /\ \A i \in DOMAIN cycles :
          cycles[i].todo # <<>> => Head(cycles[i].todo).type = "Asset"
    /\ \A r \in sales \ History :
          \E t \in Transactions : t.type = "Asset" /\ r = SaleRow(t, r.group_id)

\* A loop has passed an entry for its type and has stored the sale next to it.
C6_EntryPassed ==
    \E i \in DOMAIN cycles : cycles[i].passed /\ cycles[i].result = "ok"

\* C7: a stored row is never changed or deleted, by any step of the poller, of
\* the analytics run or of the query surface.
C7_RowsNeverChange == [][\A r \in sales : r \in sales']_vars

\* An INSERT with the idHash of a row stored for another partition has been
\* rejected.
C7_DuplicateWithOtherFields ==
    \E i \in DOMAIN cycles : \E r \in sales :
        /\ cycles[i].result = "23505"
        /\ r.id_hash = Head(cycles[i].todo).idHash
        /\ r.group_id # cycles[i].g

RunsInFlight == {j \in DOMAIN analytics : analytics[j].pc \in {"query", "upsert", "anomaly"}}

\* C8: at most one runAnalytics execution is in flight, and the flag is set
\* exactly while one is: every end of a run clears it.
C8_OneRunInFlight ==
    /\ Cardinality(RunsInFlight) <= 1
    /\ analyticsRunning <=> RunsInFlight # {}

\* A call has returned at the guard, and the run it met has ended and cleared
\* the flag.
C8_CallSkippedAndFlagCleared ==
    /\ runs > Len(analytics)
    /\ analytics # <<>>
    /\ ~analyticsRunning

\* C9: while the sales table holds fewer than 7 distinct dates no step writes
\* analytics_daily or anomalies.
C9_NoWriteBelowSevenDays ==
    [][Cardinality({r.created : r \in sales'}) < 7 =>
          /\ analytics_daily' = analytics_daily
          /\ anomalies' = anomalies]_vars

\* A run has ended on fewer than 7 dates.
C9_RunEndedWithoutWrite ==
    /\ Cardinality({r.created : r \in sales}) < 7
    /\ \E j \in DOMAIN analytics : analytics[j].pc = "done" /\ ~analytics[j].wrote

Writers(j) == {k \in 1..(j - 1) : analytics[k].wrote}

LastWriter(j) == CHOOSE k \in Writers(j) : \A m \in Writers(j) : m <= k

\* C10: analytics_daily holds at most one row per date, and the upsert of a run
\* whose query returned what the query of the last writing run returned leaves
\* the table as that run left it.
C10_UpsertIdempotent ==
    [][/\ \A x, y \in analytics_daily' : x.date = y.date => x = y
       /\ \A j \in DOMAIN analytics :
             ( /\ analytics[j].pc = "upsert"
               /\ analytics'[j].wrote
               /\ Writers(j) # {}
               /\ analytics[LastWriter(j)].rows = analytics[j].rows )
             => analytics_daily' = analytics_daily]_vars

\* Two runs have written, the second on the rows of the first.
C10_WrittenTwice ==
    \E j \in DOMAIN analytics :
        /\ analytics[j].wrote
        /\ Writers(j) # {}
        /\ analytics[LastWriter(j)].rows = analytics[j].rows

RECURSIVE Sum(_)
Sum(values) == IF values = <<>> THEN 0 ELSE Head(values) + Sum(Tail(values))

SameFraction(a, b) == a.num * b.den = b.num * a.den

\* The snapshot as stated for the rows of the query: total the sum of the last
\* date, movingAverage7 the arithmetic mean of the last 7 daily totals, trend
\* (total - movingAverage7) / max(movingAverage7, 1), volatility the root of
\* the sum of the squared deviations of the 7 totals divided by 7.
Stated(rows) ==
    LET values == [k \in 1..Len(rows) |-> rows[k].r]
        total  == values[Len(values)]
        s7     == Sum(SliceLast(values, 7))
    IN  [date       |-> rows[Len(rows)].d,
         total      |-> total,
         avg7       |-> [num |-> s7, den |-> 7],
         trend      |-> [num |-> 7 * total - s7, den |-> IF s7 > 7 THEN s7 ELSE 7],
         volatility |-> [root |-> [num |-> SumSq(SliceLast(values, 7), s7), den |-> 343]]]

\* C11: the snapshot a run writes for the most recent date has the stated total,
\* movingAverage7, trend and volatility of the daily totals its query returned.
C11_SnapshotAsStated ==
    [][\A j \in DOMAIN analytics :
          (analytics[j].pc = "upsert" /\ analytics'[j].wrote) =>
              \E x \in analytics_daily' :
                  LET st == Stated(analytics[j].rows)
                  IN  /\ x.date = st.date
                      /\ x.total = st.total
                      /\ SameFraction(x.avg7, st.avg7)
                      /\ SameFraction(x.trend, st.trend)
                      /\ SameFraction(x.volatility.root, st.volatility.root)]_vars

\* round(max(movingAverage7 * (1 + trend), 0)) of a snapshot.
StatedForecast(d) ==
    LET n == d.avg7.num * (d.trend.den + d.trend.num)
    IN  IF n < 0 THEN 0 ELSE Round(n, d.avg7.den * d.trend.den)

\* C12: the answer to sales_predict is the stated forecast of the latest
\* snapshot, never negative, and no forecast when there is no snapshot.
C12_ForecastFromSnapshot ==
    [][(reply' # reply /\ reply'.cmd = "sales_predict") =>
          IF analytics_daily = {}
          THEN reply'.kind = "nodata"
          ELSE /\ reply'.kind = "forecast"
               /\ reply'.results[1].value.v = StatedForecast(Latest(analytics_daily))
               /\ reply'.results[1].value.v >= 0]_vars

\* C13: every total the query surface returns is a number, never NULL: the sum
\* of robux over exactly the stored rows with created >= the start of its
\* window, which is 0 when there is no such row.
C13_TotalSinceWindow ==
    [][reply'.kind = "total" =>
          \A k \in DOMAIN reply'.results :
              LET a == reply'.results[k]
                  w == {r \in sales : r.created >= a.since}
              IN  /\ ~a.value.null
                  /\ a.value.v = SumRobux(w)
                  /\ w = {} => a.value.v = 0]_vars

\* A total was asked for a window no stored row falls in, with rows stored
\* before the window, and another for a window with rows of a positive sum.
C13_EmptyWindowAnswered ==
    /\ reply.cmd = "stats"
    /\ \E r \in sales : r.created < reply.results[1].since
    /\ ~\E r \in sales : r.created >= reply.results[1].since
    /\ reply.results[1].value.v = 0
    /\ reply.results[2].value.v > 0

\* C14: every marker in processingSales is short-lived: it belongs to the entry
\* a running cycle is processing, or the timer that removes it is armed.
C14_MarkerHasTimer ==
    \A h \in processingSales :
        \/ h \in saleTimers
        \/ \E i \in InFlight(cycles) :
              /\ cycles[i].pc \in {"insert", "notify"}
              /\ Head(cycles[i].todo).idHash = h

Ascends(todo) ==
    \A k \in 1..(Len(todo) - 1) : todo[k].created <= todo[k + 1].created

\* todo is what is left of old after its first entry, or after more of them.
RECURSIVE Follows(_, _)
Follows(todo, old) ==
    /\ old # <<>>
    /\ \/ todo = Tail(old)
       \/ Follows(todo, Tail(old))

\* C15: a cycle processes the entries of its response oldest first, one after
\* the other.  The entries it has still to process are in ascending order of
\* created, so in the reverse of the feed order; a row is stored and a message
\* is delivered only for the entry at their head; the cycle goes on to a later
\* entry only, and leaves an entry whose message is due by delivering it or by
\* ending.
C15_OldestFirstInTurn ==
    [][\A i \in DOMAIN cycles' :
          /\ Ascends(cycles'[i].todo)
          /\ (i \in DOMAIN cycles /\ cycles'[i] # cycles[i] /\ cycles[i].todo # <<>>) =>
                LET cur == Head(cycles[i].todo)
                IN  /\ \/ cycles'[i].todo = cycles[i].todo
                       \/ cycles'[i].todo = <<>>
                       \/ Follows(cycles'[i].todo, cycles[i].todo)
                    /\ sales' # sales =>
                          sales' = sales \cup {SaleRow(cur, cycles[i].g)}
                    /\ \A h \in Hashes :
                          notified'[h] # notified[h] =>
                              h = cur.idHash /\ cycles[i].pc = "notify"
                    /\ (cycles[i].pc = "notify" /\ cycles'[i].pc \notin {"failed", "notify"}) =>
                          notified'[cur.idHash] = notified[cur.idHash] + 1]_vars

\* A cycle of variant 1 or 2 has stored and notified the older of two sales of
\* its response and is at the newer one.
C15_SecondEntryInTurn ==
    \E i \in DOMAIN cycles : \E r \in sales :
        /\ variant # 3
        /\ cycles[i].pc = "insert"
        /\ Len(cycles[i].todo) = 1
        /\ r.group_id = cycles[i].g
        /\ r.created < Head(cycles[i].todo).created
        /\ r.id_hash \in Hashes
        /\ notified[r.id_hash] = 1
        /\ notified[Head(cycles[i].todo).idHash] = 0

\* C16: the INSERT of a stored idHash is rejected, and the rejection does not
\* end the cycle: the cycle goes on with the rest of its response, and the
\* process lives.
C16_DuplicateSwallowed ==
    [][\A i \in DOMAIN cycles :
          ( /\ cycles[i].pc = "insert"
            /\ Conflicts(sales, SaleRow(Head(cycles[i].todo), cycles[i].g))
            /\ cycles'[i] # cycles[i] )
          => /\ cycles'[i].pc # "failed"
             /\ ~crashed']_vars

\* total > movingAverage7 + 2 * volatility, on the fields of a snapshot.
AboveTwoSigma(x) ==
    /\ 7 * x.total > x.avg7.num
    /\ 7 * (7 * x.total - x.avg7.num) * (7 * x.total - x.avg7.num)
          > 4 * x.volatility.root.num

C18_NotifiedAtMostOnce == \A h \in Hashes : notified[h] <= 1

\* C19: no notification is lost.  A cycle that comes to a sale which is stored,
\* or which it stores, and whose message is due (a recipient is configured, the
\* amount meets the threshold) and has not been delivered, and is not being
\* delivered by another cycle, does not go on past that sale without delivering
\* the message.
C19_StoredSaleNotified ==
    [][\A i \in DOMAIN cycles :
          ( /\ cycles[i].pc \in {"select", "insert"}
            /\ cycles'[i].pc \in {"select", "insert", "done"}
            /\ cycles'[i] # cycles[i]
            /\ cycles'[i].todo # cycles[i].todo )
          => LET cur == Head(cycles[i].todo)
             IN  ( /\ Exists(sales', cur.idHash)
                   /\ OWNER_DISCORD_ID
                   /\ cur.amount >= ALERT_SINGLE_SALE
                   /\ ~\E k \in InFlight(cycles) :
                         /\ cycles[k].pc = "notify"
                         /\ Head(cycles[k].todo).idHash = cur.idHash )
                 => notified'[cur.idHash] >= 1]_vars

Busy == {cycles[i].g : i \in InFlight(cycles)}

\* C20: with the guard (variants 1 and 2) a partition is in pollingGroups
\* exactly while a cycle of it has started and not ended, on every way a cycle
\* ends; a step of a cycle changes no marker but its own partition's, and no
\* step of the poller changes the analytics flag.
C20_MarkersMirrorCycles ==
    [][/\ variant # 3 => pollingGroups' = Busy'
       /\ \A i \in DOMAIN cycles :
             cycles'[i] # cycles[i] =>
                 /\ pollingGroups' \ {cycles[i].g} = pollingGroups \ {cycles[i].g}
                 /\ analyticsRunning' = analyticsRunning
       /\ tick' # tick => analyticsRunning' = analyticsRunning]_vars

\* One cycle has ended in the catch and another at the end of its loop, both
\* markers are cleared, and the cycle of a later tick runs under its marker.
C20_ClearedOnEveryExit ==
    /\ variant # 3
    /\ \E i, j, k \in DOMAIN cycles :
          /\ cycles[i].pc = "failed"
          /\ cycles[j].pc = "done"
          /\ cycles[k].pc \in {"insert", "notify"}
          /\ cycles[k].tick > cycles[i].tick
          /\ pollingGroups = {cycles[k].g}

\* C21: the anomalies table holds at most one entry per date.
C21_OneAnomalyPerDate ==
    \A k, m \in DOMAIN anomalies : anomalies[k].date = anomalies[m].date => k = m

====
